---- MODULE Spec2Model ----
(***************************************************************************)
(* A model of generate_cards.py: the card renderer draw_card, its helpers  *)
(* slugify, art_path, load_icon, draw_icon_row and wrap_text, and the CSV  *)
(* driver main.                                                            *)
(*                                                                         *)
(* A Python str is a sequence of one-character strings.  Characters that   *)
(* are not ASCII are written by name: "e_acute" is U+00E9, "acute" is the  *)
(* combining mark U+0301, "o_slash" / "O_slash" are U+00F8 / U+00D8,       *)
(* "half" is U+00BD and "frac_slash" is U+2044.                            *)
(***************************************************************************)
EXTENDS Integers, Sequences, FiniteSets, TLC

VARIABLES
    \* main / draw_card
    rows, assets, artfiles, idx, pc, phase, canvas, out, out_before,
    icon_cache, fonts, ypos, error,
    \* slugify called on its own
    s_in, s_out, s_out2, s_stage,
    \* wrap_text called on its own
    w_text, w_font, w_max, w_lines, w_stage,
    \* art_path called on its own
    a_card, a_files, a_result, a_stage,
    \* draw_icon_row called on its own
    i_tokens, i_icons, i_cache, i_placed, i_calls, i_at

mainVars == <<rows, assets, artfiles, idx, pc, phase, canvas, out,
              out_before, icon_cache, fonts, ypos, error>>
slugVars == <<s_in, s_out, s_out2, s_stage>>
wrapVars == <<w_text, w_font, w_max, w_lines, w_stage>>
artVars  == <<a_card, a_files, a_result, a_stage>>
iconVars == <<i_tokens, i_icons, i_cache, i_placed, i_calls, i_at>>
vars == <<mainVars, slugVars, wrapVars, artVars, iconVars>>

\* ---------------------------------------------------------------- bounds
MaxSlugLen == 3
MaxTextLen == 6
MaxGlyphW == 2
MaxW == 4
MaxTokens == 3
MaxOrigin == 1
MaxRows == 3
GlyphAdvance == 16
LongLen == 40

\* ------------------------------------------------------ layout & assets
DPI == 300
TITLE_FONT_PT == 9
TITLE_BAR == <<92, 98, 652, 162>>
SUBTITLE_BAR == <<92, 650, 652, 700>>
RULES_BOX == <<92, 700, 652, 930>>
TITLE_Y_PAD == 14
SUBTITLE_Y_PAD == 10
TITLE_FONT_PATH == <<"Beleren2016-Bold.ttf">>
RULES_FONT_PATH == <<"MPlantin.ttf">>
RULES_FONT_ITALIC == <<"MPlantin-Italic.ttf">>
PARCHMENT_PATH == <<"parchment_box.png">>
ICON_SIZE == 32

\* round(pt * DPI / 72): Python rounds a tie to the even neighbour.
pt_to_px(pt) ==
    LET n == pt * DPI
        q == n \div 72
        r == n % 72
    IN IF 2 * r < 72 THEN q
       ELSE IF 2 * r > 72 THEN q + 1
       ELSE IF q % 2 = 0 THEN q ELSE q + 1

\* ------------------------------------------------------- str operations
\* All strings over the characters of S of length at most n.
StringsUpTo(S, n) == UNION {[1..k -> S] : k \in 0..n}

\* c repeated n times.
Rep(c, n) == [i \in 1..n |-> c]

RECURSIVE Concat(_)
\* "".join(parts)
Concat(parts) ==
    IF parts = <<>> THEN <<>> ELSE Head(parts) \o Concat(Tail(parts))

\* str.isspace for one character.
IsSpace(c) == c = " "

\* str.lower for one character (every other character of the model is
\* caseless or already lower case).
LowerChar(c) ==
    CASE c = "A" -> "a"
      [] c = "C" -> "c"
      [] c = "E" -> "e"
      [] c = "P" -> "p"
      [] c = "R" -> "r"
      [] c = "W" -> "w"
      [] c = "O_slash" -> "o_slash"
      [] OTHER -> c

\* str.lower
Lower(s) == [i \in DOMAIN s |-> LowerChar(s[i])]

\* str.upper for one character.
UpperChar(c) ==
    CASE c = "a" -> "A"
      [] c = "b" -> "B"
      [] c = "r" -> "R"
      [] c = "w" -> "W"
      [] c = "o_slash" -> "O_slash"
      [] OTHER -> c

\* str.upper
Upper(s) == [i \in DOMAIN s |-> UpperChar(s[i])]

\* unicodedata.normalize("NFKD", c) for one character: the full
\* compatibility decomposition.
DecomposeChar(c) ==
    CASE c = "e_acute" -> <<"e", "acute">>
      [] c = "half" -> <<"1", "frac_slash", "2">>
      [] OTHER -> <<c>>

\* unicodedata.normalize("NFKD", txt)
NFKD(txt) == Concat([i \in DOMAIN txt |-> DecomposeChar(txt[i])])

\* unicodedata.category(c)[0] == "M"
IsMark(c) == c = "acute"

AsciiLetters == {"a", "b", "c", "d", "e", "f", "g", "i", "j", "m", "n", "o",
                 "p", "r", "s", "t", "u", "w", "x", "y",
                 "A", "C", "E", "P", "R", "W"}
AsciiDigits == {"1", "2"}

\* str.isalnum for one character: letters and numeric characters of any
\* script, not only ASCII.
IsAlnum(c) ==
    c \in AsciiLetters \cup AsciiDigits \cup {"o_slash", "O_slash", "half"}

RECURSIVE Filter(_)
\* c for c in norm if category(c)[0] != "M" and c.isalnum()
Filter(norm) ==
    IF norm = <<>> THEN <<>>
    ELSE IF ~IsMark(Head(norm)) /\ IsAlnum(Head(norm))
         THEN <<Head(norm)>> \o Filter(Tail(norm))
         ELSE Filter(Tail(norm))

slugify(txt) == Lower(Filter(NFKD(txt)))

RECURSIVE SplitFrom(_, _, _)
\* str.split() with no separator: the maximal runs of non-whitespace, in
\* order; cur is the run being read, acc the runs read so far.
SplitFrom(s, cur, acc) ==
    IF s = <<>> THEN (IF cur = <<>> THEN acc ELSE Append(acc, cur))
    ELSE IF IsSpace(Head(s))
         THEN SplitFrom(Tail(s), <<>>,
                        IF cur = <<>> THEN acc ELSE Append(acc, cur))
         ELSE SplitFrom(Tail(s), Append(cur, Head(s)), acc)

Split(s) == SplitFrom(s, <<>>, <<>>)

RECURSIVE LStrip(_)
LStrip(s) ==
    IF s # <<>> /\ IsSpace(Head(s)) THEN LStrip(Tail(s)) ELSE s

RECURSIVE RStrip(_)
RStrip(s) ==
    IF s # <<>> /\ IsSpace(s[Len(s)])
    THEN RStrip(SubSeq(s, 1, Len(s) - 1)) ELSE s

\* str.strip()
Strip(s) == RStrip(LStrip(s))

\* s.endswith(suffix)
EndsWith(s, suffix) ==
    /\ Len(s) >= Len(suffix)
    /\ SubSeq(s, Len(s) - Len(suffix) + 1, Len(s)) = suffix

RECURSIVE SumAdvance(_, _)
SumAdvance(font, s) ==
    IF s = <<>> THEN 0 ELSE font.adv[Head(s)] + SumAdvance(font, Tail(s))

\* font.getlength(text): the advance width of text, the sum of the advances
\* of its glyphs in the font's metrics (font.adv).
getlength(font, text) == SumAdvance(font, text)

\* ------------------------------------------------------------ wrap_text
RECURSIVE WrapLoopLineOnly(_, _, _, _, _)
WrapLoopLineOnly(words, lines, line, font, max_w) ==
    IF words = <<>> THEN (IF line # <<>> THEN Append(lines, line) ELSE lines)
    ELSE LET w == Head(words)
             test == Strip(line \o <<" ">> \o w)
         IN IF getlength(font, line) <= max_w
            THEN WrapLoopLineOnly(Tail(words), lines, test, font, max_w)
            ELSE WrapLoopLineOnly(Tail(words), Append(lines, line), w, font,
                                  max_w)

\* wrap_text measuring the line before the word is added.
wrap_text_line_only(text, font, max_w) ==
    WrapLoopLineOnly(Split(text), <<>>, <<>>, font, max_w)

RECURSIVE WrapLoop(_, _, _, _, _)
\* for w in words: ...; if line: lines.append(line); return lines
WrapLoop(words, lines, line, font, max_w) ==
    IF words = <<>> THEN (IF line # <<>> THEN Append(lines, line) ELSE lines)
    ELSE LET w == Head(words)
             test == Strip(line \o <<" ">> \o w)
         IN IF getlength(font, test) <= max_w
            THEN WrapLoop(Tail(words), lines, test, font, max_w)
            ELSE WrapLoop(Tail(words), Append(lines, line), w, font, max_w)

wrap_text(text, font, max_w) == WrapLoop(Split(text), <<>>, <<>>, font, max_w)

\* ------------------------------------------------------------- art_path
PNG == <<".", "p", "n", "g">>
JPG == <<".", "j", "p", "g">>
JPEG == <<".", "j", "p", "e", "g">>
ArtDir == <<"a", "r", "t", "/">>

\* The failure of art_path: raise FileNotFoundError("Artwork not found ...").
ArtworkNotFound == [ok |-> FALSE, path |-> <<>>]

RECURSIVE FirstExisting(_, _, _)
\* for ext in exts: p = Path("art")/f"{slug}{ext}"; if p.exists(): return p
\* and, past the loop, the raise.
FirstExisting(slug, exts, files) ==
    IF exts = <<>> THEN ArtworkNotFound
    ELSE LET p == ArtDir \o slug \o Head(exts)
         IN IF p \in files THEN [ok |-> TRUE, path |-> p]
            ELSE FirstExisting(slug, Tail(exts), files)

\* art_path trying .jpg before .png.
art_path_jpg_first(card, files) ==
    IF card.art_file # <<>> /\ card.art_file \in files
    THEN [ok |-> TRUE, path |-> card.art_file]
    ELSE FirstExisting(slugify(card.name), <<JPG, PNG, JPEG>>, files)

\* art_path(card), with files the paths that exist.  A record without
\* art_file, or with an empty one, has art_file = <<>>, which is falsy.
art_path(card, files) ==
    IF card.art_file # <<>> /\ card.art_file \in files
    THEN [ok |-> TRUE, path |-> card.art_file]
    ELSE FirstExisting(slugify(card.name), <<PNG, JPG, JPEG>>, files)

\* ---------------------------------------------- load_icon, draw_icon_row
\* The outcome of load_icon(name) on a cold cache: the file the icon is read
\* from, or <<>> for None.
LoadIconMiss(name, icons) ==
    IF name = <<>> THEN <<>>
    ELSE LET file == IF EndsWith(name, PNG) THEN name ELSE name \o PNG
         IN IF file \in icons THEN file ELSE <<>>

\* @lru_cache(maxsize=None) load_icon(name): the cached outcome when name
\* was loaded before, else the outcome of the body, which the cache keeps.
load_icon(name, icons, cache) ==
    IF name \in DOMAIN cache
    THEN [icon |-> cache[name], cache |-> cache]
    ELSE LET r == LoadIconMiss(name, icons)
         IN [icon |-> r, cache |-> cache @@ (name :> r)]

RECURSIVE IconLoopGap(_, _, _, _, _, _)
IconLoopGap(toks, x, y, icons, cache, placed) ==
    IF toks = <<>> THEN [placed |-> placed, cache |-> cache]
    ELSE LET r == load_icon(Head(toks), icons, cache)
         IN IF r.icon # <<>>
            THEN IconLoopGap(Tail(toks), x + ICON_SIZE + 2, y, icons, r.cache,
                             Append(placed, [icon |-> r.icon, at |-> <<x, y>>]))
            ELSE IconLoopGap(Tail(toks), x + ICON_SIZE + 2, y, icons, r.cache,
                             placed)

\* draw_icon_row advancing x for a token without an icon too.
draw_icon_row_gap(tokens, x, y, icons, cache) ==
    IconLoopGap(Split(tokens), x, y, icons, cache, <<>>)

RECURSIVE IconLoop(_, _, _, _, _, _)
\* for tok in tokens.split(): icon = load_icon(tok); if icon: composite at
\* (x, y); x += ICON_SIZE + 2
IconLoop(toks, x, y, icons, cache, placed) ==
    IF toks = <<>> THEN [placed |-> placed, cache |-> cache]
    ELSE LET r == load_icon(Head(toks), icons, cache)
         IN IF r.icon # <<>>
            THEN IconLoop(Tail(toks), x + ICON_SIZE + 2, y, icons, r.cache,
                          Append(placed, [icon |-> r.icon, at |-> <<x, y>>]))
            ELSE IconLoop(Tail(toks), x, y, icons, r.cache, placed)

\* draw_icon_row(canvas, tokens, x, y): the icons composited on the canvas,
\* in order, and the icon cache afterwards.
draw_icon_row(tokens, x, y, icons, cache) ==
    IconLoop(Split(tokens), x, y, icons, cache, <<>>)

\* ------------------------------------------------ slugify on its own
SlugChars == {"a", "A", "1", " ", "e_acute", "acute", "O_slash", "half"}

slugIdle == /\ s_in = <<>> /\ s_out = <<>> /\ s_out2 = <<>> /\ s_stage = "off"
wrapIdle == /\ w_text = <<>> /\ w_font = <<>> /\ w_max = 0 /\ w_lines = <<>>
            /\ w_stage = "off"
artIdle  == /\ a_card = <<>> /\ a_files = {} /\ a_result = <<>>
            /\ a_stage = "off"
iconIdle == /\ i_tokens = <<>> /\ i_icons = {} /\ i_cache = <<>>
            /\ i_placed = <<>> /\ i_calls = 0 /\ i_at = <<0, 0>>
mainIdle == /\ rows = <<>> /\ assets = {} /\ artfiles = {}
            /\ idx = 0 /\ pc = "off" /\ phase = "off" /\ canvas = <<>>
            /\ out = <<>> /\ out_before = <<>> /\ icon_cache = <<>>
            /\ fonts = <<>> /\ ypos = 0 /\ error = "none"

InitSlug ==
    /\ s_in \in StringsUpTo(SlugChars, MaxSlugLen)
    /\ s_out = <<>> /\ s_out2 = <<>> /\ s_stage = "in"
    /\ mainIdle /\ wrapIdle /\ artIdle /\ iconIdle

\* slug = slugify(x)
CallSlugify ==
    /\ s_stage = "in"
    /\ s_out' = slugify(s_in)
    /\ s_stage' = "once"
    /\ UNCHANGED <<s_in, s_out2, mainVars, wrapVars, artVars, iconVars>>

\* slugify(slug)
CallSlugifyAgain ==
    /\ s_stage = "once"
    /\ s_out2' = slugify(s_out)
    /\ s_stage' = "twice"
    /\ UNCHANGED <<s_in, s_out, mainVars, wrapVars, artVars, iconVars>>

NextSlug == CallSlugify \/ CallSlugifyAgain

SpecSlug == InitSlug /\ [][NextSlug]_vars

\* C6: slugify is idempotent, slugify(slugify(x)) = slugify(x), and its
\* result consists of lowercase ASCII alphanumeric characters only.
AsciiLowerAlnum == {"a", "b", "c", "d", "e", "f", "g", "i", "j", "m", "n", "o",
                    "p", "r", "s", "t", "u", "w", "x", "y", "1", "2"}
C6_SlugIdempotentAscii ==
    /\ s_stage \in {"once", "twice"} =>
          \A i \in DOMAIN s_out : s_out[i] \in AsciiLowerAlnum
    /\ s_stage = "twice" => s_out2 = s_out

\* ---------------------------------------------- wrap_text on its own
WrapChars == {"x", "y", " "}

InitWrap ==
    /\ w_text \in StringsUpTo(WrapChars, MaxTextLen)
    /\ \E adv \in [WrapChars -> 1..MaxGlyphW] : w_font = [size |-> 28, adv |-> adv]
    /\ w_max \in 0..MaxW
    /\ w_lines = <<>> /\ w_stage = "in"
    /\ mainIdle /\ slugIdle /\ artIdle /\ iconIdle

\* lines = wrap_text(text, font, max_w)
CallWrapText ==
    /\ w_stage = "in"
    /\ w_lines' = wrap_text(w_text, w_font, w_max)
    /\ w_stage' = "done"
    /\ UNCHANGED <<w_text, w_font, w_max, mainVars, slugVars, artVars, iconVars>>

NextWrap == CallWrapText

SpecWrap == InitWrap /\ [][NextWrap]_vars

RECURSIVE JoinSp(_)
\* " ".join(parts)
JoinSp(parts) ==
    IF parts = <<>> THEN <<>>
    ELSE IF Len(parts) = 1 THEN Head(parts)
         ELSE Head(parts) \o <<" ">> \o JoinSp(Tail(parts))

\* A line that is exactly one word of the text.
IsWordOf(line, text) == \E i \in DOMAIN Split(text) : Split(text)[i] = line

\* C4: every line wrap_text returns has measured width <= max_w, except
\* that a single word wider than max_w appears alone on its line,
\* unmodified.
C4_LinesFit ==
    w_stage = "done" =>
        /\ \A k \in DOMAIN w_lines :
              \/ getlength(w_font, w_lines[k]) <= w_max
              \/ IsWordOf(w_lines[k], w_text)
        /\ \A i \in DOMAIN Split(w_text) :
              getlength(w_font, Split(w_text)[i]) > w_max =>
                  \E k \in DOMAIN w_lines : w_lines[k] = Split(w_text)[i]

\* A text of several words in which one word is wider than max_w and two
\* others share a line.
C4_Witness ==
    /\ w_stage = "done"
    /\ \E i \in DOMAIN Split(w_text) :
          getlength(w_font, Split(w_text)[i]) > w_max
    /\ \E k \in DOMAIN w_lines : Len(Split(w_lines[k])) = 2

\* C10: wrap_text loses, duplicates, splits and reorders no word (its lines
\* joined with single spaces are the words of the text joined with single
\* spaces) and returns no empty line.
C10_WordsKeptNoEmptyLine ==
    w_stage = "done" =>
        /\ JoinSp(w_lines) = JoinSp(Split(w_text))
        /\ \A k \in DOMAIN w_lines : w_lines[k] # <<>>

\* ----------------------------------------------- art_path on its own
ArtNames == {<<"A", "b">>, <<"e_acute">>, <<" ">>}
ExplicitArt == <<"c", PNG[1], PNG[2], PNG[3], PNG[4]>>
ArtFiles ==
    {ExplicitArt} \cup
    {ArtDir \o slug \o ext : slug \in {<<"a", "b">>, <<"e">>},
                             ext \in {PNG, JPG, JPEG}}
ArtCards ==
    [name : ArtNames,
     art_file : {<<>>, ExplicitArt, ArtDir \o <<"a", "b">> \o JPEG}]

InitArt ==
    /\ a_card \in ArtCards
    /\ a_files \in SUBSET ArtFiles
    /\ a_result = <<>> /\ a_stage = "in"
    /\ mainIdle /\ slugIdle /\ wrapIdle /\ iconIdle

\* art_path(card)
CallArtPath ==
    /\ a_stage = "in"
    /\ a_result' = art_path(a_card, a_files)
    /\ a_stage' = "done"
    /\ UNCHANGED <<a_card, a_files, mainVars, slugVars, wrapVars, iconVars>>

NextArt == CallArtPath

SpecArt == InitArt /\ [][NextArt]_vars

\* The slug-named candidates of a card, in the order they are tried.
SlugCandidates(card) ==
    [k \in 1..3 |-> ArtDir \o slugify(card.name) \o <<PNG, JPG, JPEG>>[k]]

\* C5: art_path returns the explicit art_file when it is set and exists;
\* otherwise the first existing art/<slug><ext> for ext in .png, .jpg,
\* .jpeg; and it fails exactly when none of these candidates exists.
C5_ArtPriority ==
    a_stage = "done" =>
        LET explicit == a_card.art_file # <<>> /\ a_card.art_file \in a_files
            cand == SlugCandidates(a_card)
        IN /\ explicit => a_result = [ok |-> TRUE, path |-> a_card.art_file]
           /\ \A k \in 1..3 :
                 (/\ ~explicit
                  /\ cand[k] \in a_files
                  /\ \A j \in 1..(k - 1) : cand[j] \notin a_files)
                 => a_result = [ok |-> TRUE, path |-> cand[k]]
           /\ ~a_result.ok <=>
                 (~explicit /\ \A k \in 1..3 : cand[k] \notin a_files)

\* An explicit path that does not exist fell through to the slug lookup,
\* which skipped a missing .png and found the .jpg while a .jpeg exists too.
C5_Witness ==
    /\ a_stage = "done"
    /\ a_card.art_file = ExplicitArt
    /\ ExplicitArt \notin a_files
    /\ SlugCandidates(a_card)[1] \notin a_files
    /\ SlugCandidates(a_card)[3] \in a_files
    /\ a_result = [ok |-> TRUE, path |-> SlugCandidates(a_card)[2]]

\* ------------------------------------------ draw_icon_row on its own
\* Icon names; the empty name between two others makes a run of spaces.
IconTokens == {<<"f">>, <<"f">> \o PNG, <<"w">>, <<>>}
IconFiles == {<<"f">> \o PNG, <<"w">> \o PNG}

TokenStrings == {JoinSp(ts) : ts \in StringsUpTo(IconTokens, MaxTokens)}

InitIcons ==
    /\ i_icons \in SUBSET IconFiles
    /\ i_at \in (0..MaxOrigin) \X {0}
    /\ i_tokens = <<>> /\ i_cache = <<>> /\ i_placed = <<>> /\ i_calls = 0
    /\ mainIdle /\ slugIdle /\ wrapIdle /\ artIdle

\* draw_icon_row(canvas, tokens, x, y) at origin i_at
CallDrawIconRow(tokens) ==
    LET r == draw_icon_row(tokens, i_at[1], i_at[2], i_icons, i_cache)
    IN /\ i_tokens' = tokens
       /\ i_placed' = r.placed
       /\ i_cache' = r.cache
       /\ i_calls' = i_calls + 1
       /\ UNCHANGED <<i_icons, i_at, mainVars, slugVars, wrapVars, artVars>>

\* The row of power icons: the first call, on a cold cache.
PowerRow == i_calls = 0 /\ \E tokens \in TokenStrings : CallDrawIconRow(tokens)

\* The row of cost icons: the second call, on the cache the first one left.
CostRow == i_calls = 1 /\ \E tokens \in TokenStrings : CallDrawIconRow(tokens)

NextIcons == PowerRow \/ CostRow

SpecIcons == InitIcons /\ [][NextIcons]_vars

\* The file a token names.
IconFileOf(tok) == IF EndsWith(tok, PNG) THEN tok ELSE tok \o PNG

RECURSIVE Resolvable(_, _)
\* The tokens, in order, whose icon file exists.
Resolvable(toks, icons) ==
    IF toks = <<>> THEN <<>>
    ELSE IF IconFileOf(Head(toks)) \in icons
         THEN <<Head(toks)>> \o Resolvable(Tail(toks), icons)
         ELSE Resolvable(Tail(toks), icons)

\* C9: the k-th token that resolves to an icon (k from 0, over resolved
\* tokens only) is composited at (x + k*(ICON_SIZE+2), y); a token that does
\* not resolve is skipped without advancing x, so the number of icons drawn
\* is the number of resolvable tokens.
C9_IconRowLayout ==
    i_calls > 0 =>
        LET res == Resolvable(Split(i_tokens), i_icons)
        IN /\ Len(i_placed) = Len(res)
           /\ \A k \in 0..(Len(res) - 1) :
                 i_placed[k + 1] =
                     [icon |-> IconFileOf(res[k + 1]),
                      at |-> <<i_at[1] + k * (ICON_SIZE + 2), i_at[2]>>]

\* A row in which a token without an icon stands between two tokens with
\* one, drawn from a warm cache.
C9_Witness ==
    /\ i_calls = 2
    /\ Len(Split(i_tokens)) = 3
    /\ Len(i_placed) = 2
    /\ IconFileOf(Split(i_tokens)[2]) \notin i_icons

\* ------------------------------------------------------ draw_card, main
\* Every character of the model, for the metrics of a font.
AllChars ==
    AsciiLetters \cup AsciiDigits \cup
    {"B", " ", ":", ".", "/", "-", "_", "e_acute", "acute", "o_slash",
     "O_slash", "half", "frac_slash"}

\* ImageFont.truetype(path, size) of the model's font files: every glyph
\* advances by GlyphAdvance pixels.
TrueType(path, size) ==
    [face |-> path, size |-> size, adv |-> [c \in AllChars |-> GlyphAdvance]]

\* load_font(path, size): the font of the file, or on OSError the built-in
\* default font.
load_font(path, size, files) ==
    IF path \in files THEN TrueType(path, size)
    ELSE [face |-> <<"default">>, size |-> 10,
          adv |-> [c \in AllChars |-> GlyphAdvance]]

PatternFile(colour) == <<"pattern_">> \o colour \o PNG
FrameFile(colour) == <<"frame_">> \o colour \o PNG

\* One step of compositing: what is drawn, where, and with what.
Layer(kind, at, what) == [kind |-> kind, at |-> at, what |-> what]

\* The order with the parchment panel under the artwork.
StepOrderParchmentFirst ==
    <<"pattern", "frame", "parchment", "art", "fonts", "title", "subtitle",
      "label", "cost", "flavor", "save">>

\* The order with the file written before the artwork is resolved.
StepOrderSaveEarly ==
    <<"pattern", "frame", "save", "art", "parchment", "fonts", "title",
      "subtitle", "label", "cost", "flavor">>

\* The statements of draw_card, in the order of its body.
StepOrder ==
    <<"pattern", "frame", "art", "parchment", "fonts", "title", "subtitle",
      "label", "cost", "flavor", "save">>

\* The step after step s; past the last one draw_card returns to the loop
\* of main.
StepAfter(s) ==
    LET k == CHOOSE i \in DOMAIN StepOrder : StepOrder[i] = s
    IN IF k = Len(StepOrder) THEN "loop" ELSE StepOrder[k + 1]

LongTitle == Rep("W", LongLen)
LongFlavor == Rep("x", LongLen \div 2) \o <<" ">> \o Rep("y", LongLen \div 2)
Red == <<"R", "e", "d">>
Creature == <<"C", "r", "e", "a", "t", "u", "r", "e">>

\* The records of the model's batches: a creature with icons and a long
\* flavour text; a card with an explicit artwork path and a long title; a
\* card of a colour without assets; a card without a colour.
Cards ==
    {[name |-> <<"A", "b">>, color |-> Red, art_file |-> <<>>,
      subtitle |-> <<"x">>, type |-> Creature,
      power_symbol |-> <<"f", " ", "w">>, cost_symbol |-> <<"f">> \o PNG,
      flavor_text |-> LongFlavor],
     [name |-> LongTitle, color |-> Lower(Red), art_file |-> ExplicitArt,
      subtitle |-> <<>>, type |-> <<>>,
      power_symbol |-> <<>>, cost_symbol |-> <<"f">>,
      flavor_text |-> <<"x">>],
     [name |-> <<"O_slash">>, color |-> <<"x">>, art_file |-> <<>>,
      subtitle |-> <<>>, type |-> <<>>,
      power_symbol |-> <<>>, cost_symbol |-> <<>>, flavor_text |-> <<>>],
     [name |-> <<"A", "b">>, color |-> <<>>, art_file |-> ExplicitArt,
      subtitle |-> <<>>, type |-> Creature,
      power_symbol |-> <<>>, cost_symbol |-> <<>>, flavor_text |-> <<>>]}

FontFiles == {TITLE_FONT_PATH, RULES_FONT_PATH, RULES_FONT_ITALIC}
OptionalAssets ==
    {PatternFile(Lower(Red)), FrameFile(Lower(Red)), PARCHMENT_PATH,
     <<"f">> \o PNG}
BatchArtFiles ==
    {ExplicitArt, ArtDir \o <<"a", "b">> \o PNG,
     ArtDir \o slugify(LongTitle) \o JPG}

\* main(csv_path, out_dir) about to read the first row: the rows of the
\* CSV file, the files of assets/ (the font files among them) and the
\* artwork files that exist; the output directory is empty.
Init ==
    /\ rows \in StringsUpTo(Cards, MaxRows)
    /\ \E opt \in SUBSET OptionalAssets : assets = FontFiles \cup opt
    /\ artfiles \in SUBSET BatchArtFiles
    /\ idx = 0 /\ pc = "loop" /\ phase = "running"
    /\ canvas = <<>> /\ out = <<>> /\ out_before = <<>>
    /\ icon_cache = <<>> /\ fonts = <<>> /\ ypos = 0 /\ error = "none"
    /\ slugIdle /\ wrapIdle /\ artIdle /\ iconIdle

others == <<slugVars, wrapVars, artVars, iconVars>>
card == rows[idx]

\* An exception raised at a step of draw_card: nothing in draw_card or main
\* catches it, so it leaves the for loop and main, and the program ends.
Raise(step) ==
    /\ phase' = "crashed"
    /\ pc' = "raised"
    /\ error' = step

Continue(step) ==
    /\ pc' = StepAfter(step)
    /\ UNCHANGED <<phase, error>>

\* for row in csv.DictReader(f): draw_card(row, out_dir)
NextRow ==
    /\ phase = "running" /\ pc = "loop" /\ idx < Len(rows)
    /\ idx' = idx + 1
    /\ pc' = StepOrder[1]
    /\ canvas' = <<>> /\ fonts' = <<>> /\ ypos' = 0
    /\ out_before' = out
    /\ UNCHANGED <<rows, assets, artfiles, phase, out, icon_cache, error,
                   others>>

\* The rows are exhausted: main returns.
MainReturn ==
    /\ phase = "running" /\ pc = "loop" /\ idx = Len(rows)
    /\ phase' = "done"
    /\ pc' = "exit"
    /\ UNCHANGED <<rows, assets, artfiles, idx, canvas, out, out_before,
                   icon_cache, fonts, ypos, error, others>>

\* bg = ImageOps.fit(Image.open(PATTERNS/f"pattern_{colour}.png"), ...)
OpenPattern ==
    /\ phase = "running" /\ pc = "pattern"
    /\ LET colour == Lower(card.color)
       IN IF PatternFile(colour) \in assets
          THEN /\ canvas' = <<Layer("pattern", <<0, 0>>, PatternFile(colour))>>
               /\ Continue("pattern")
          ELSE /\ Raise("pattern")
               /\ UNCHANGED canvas
    /\ UNCHANGED <<rows, assets, artfiles, idx, out, out_before, icon_cache,
                   fonts, ypos, others>>

\* frame = Image.open(ASSETS/f"frame_{colour}.png");
\* canvas = Image.alpha_composite(bg, frame)
OpenFrame ==
    /\ phase = "running" /\ pc = "frame"
    /\ LET colour == Lower(card.color)
       IN IF FrameFile(colour) \in assets
          THEN /\ canvas' = Append(canvas,
                                   Layer("frame", <<0, 0>>, FrameFile(colour)))
               /\ Continue("frame")
          ELSE /\ Raise("frame")
               /\ UNCHANGED canvas
    /\ UNCHANGED <<rows, assets, artfiles, idx, out, out_before, icon_cache,
                   fonts, ypos, others>>

\* art = fit_into(ART_BOX, Image.open(art_path(card))...); composite it and
\* draw its outline
DrawArt ==
    /\ phase = "running" /\ pc = "art"
    /\ LET r == art_path(card, artfiles)
       IN IF r.ok
          THEN /\ canvas' = canvas \o <<Layer("art", "centred", r.path),
                                        Layer("outline", "centred", r.path)>>
               /\ Continue("art")
          ELSE /\ Raise("art")
               /\ UNCHANGED canvas
    /\ UNCHANGED <<rows, assets, artfiles, idx, out, out_before, icon_cache,
                   fonts, ypos, others>>

\* if PARCHMENT_PATH.exists(): composite it at the rules box
DrawParchment ==
    /\ phase = "running" /\ pc = "parchment"
    /\ canvas' = IF PARCHMENT_PATH \in assets
                 THEN Append(canvas, Layer("parchment",
                                           <<RULES_BOX[1], RULES_BOX[2]>>,
                                           PARCHMENT_PATH))
                 ELSE canvas
    /\ Continue("parchment")
    /\ UNCHANGED <<rows, assets, artfiles, idx, out, out_before, icon_cache,
                   fonts, ypos, others>>

\* title_font, subtitle_font, base_font, italic_font = load_font(...)
LoadFonts ==
    /\ phase = "running" /\ pc = "fonts"
    /\ fonts' =
         [title |-> load_font(TITLE_FONT_PATH, pt_to_px(TITLE_FONT_PT), assets),
          subtitle |-> load_font(TITLE_FONT_PATH, 32, assets),
          base |-> load_font(RULES_FONT_PATH, 32, assets),
          italic |-> load_font(IF RULES_FONT_ITALIC \in assets
                               THEN RULES_FONT_ITALIC ELSE RULES_FONT_PATH,
                               28, assets)]
    /\ Continue("fonts")
    /\ UNCHANGED <<rows, assets, artfiles, idx, canvas, out, out_before,
                   icon_cache, ypos, others>>

\* draw.text(..., card["name"].upper(), font=title_font, ...)
DrawTitle ==
    /\ phase = "running" /\ pc = "title"
    /\ canvas' = Append(canvas,
                        [kind |-> "title",
                         at |-> <<TITLE_BAR[1] + 8, TITLE_BAR[2] + TITLE_Y_PAD>>,
                         what |-> Upper(card.name),
                         size |-> fonts.title.size])
    /\ Continue("title")
    /\ UNCHANGED <<rows, assets, artfiles, idx, out, out_before, icon_cache,
                   fonts, ypos, others>>

\* if card.get("subtitle"): draw.text(..., card["subtitle"], ...)
DrawSubtitle ==
    /\ phase = "running" /\ pc = "subtitle"
    /\ canvas' = IF card.subtitle # <<>>
                 THEN Append(canvas,
                             Layer("subtitle",
                                   <<SUBTITLE_BAR[1] + 8,
                                     SUBTITLE_BAR[2] + SUBTITLE_Y_PAD>>,
                                   card.subtitle))
                 ELSE canvas
    /\ Continue("subtitle")
    /\ UNCHANGED <<rows, assets, artfiles, idx, out, out_before, icon_cache,
                   fonts, ypos, others>>

\* The icons of one row as layers.
IconLayers(kind, placed) ==
    [k \in DOMAIN placed |-> Layer(kind, placed[k].at, placed[k].icon)]

\* x, y = RULES_BOX[0]+16, RULES_BOX[1]+20; the label, its icon row;
\* y += base_font.size + gap*2
DrawLabel ==
    /\ phase = "running" /\ pc = "label"
    /\ LET x == RULES_BOX[1] + 16
           y == RULES_BOX[2] + 20
           label == IF Lower(card.type) = Lower(Creature)
                    THEN <<"P", "o", "d", "e", "r", ":">>
                    ELSE <<"E", "f", "e", "i", "t", "o", ":">>
           r == draw_icon_row(card.power_symbol,
                              x + getlength(fonts.base, label) + 8, y - 4,
                              assets, icon_cache)
       IN /\ canvas' = Append(canvas, Layer("label", <<x, y>>, label))
                       \o IconLayers("power_icon", r.placed)
          /\ icon_cache' = r.cache
          /\ ypos' = y + fonts.base.size + 6 * 2
    /\ Continue("label")
    /\ UNCHANGED <<rows, assets, artfiles, idx, out, out_before, fonts,
                   others>>

\* "Custo:", its icon row; y += base_font.size + gap*6
DrawCost ==
    /\ phase = "running" /\ pc = "cost"
    /\ LET x == RULES_BOX[1] + 16
           label == <<"C", "u", "s", "t", "o", ":">>
           r == draw_icon_row(card.cost_symbol,
                              x + getlength(fonts.base, label) + 8, ypos - 4,
                              assets, icon_cache)
       IN /\ canvas' = Append(canvas, Layer("cost_label", <<x, ypos>>, label))
                       \o IconLayers("cost_icon", r.placed)
          /\ icon_cache' = r.cache
          /\ ypos' = ypos + fonts.base.size + 6 * 6
    /\ Continue("cost")
    /\ UNCHANGED <<rows, assets, artfiles, idx, out, out_before, fonts,
                   others>>

\* for ln in wrap_text(flavor_text, italic_font, max_w): draw.text(...);
\* y += italic_font.size + gap
DrawFlavor ==
    /\ phase = "running" /\ pc = "flavor"
    /\ LET x == RULES_BOX[1] + 16
           max_w == RULES_BOX[3] - RULES_BOX[1] - 32
           lines == wrap_text(card.flavor_text, fonts.italic, max_w)
       IN /\ canvas' = canvas \o
                [k \in DOMAIN lines |->
                    Layer("flavor",
                          <<x, ypos + (k - 1) * (fonts.italic.size + 6)>>,
                          lines[k])]
          /\ ypos' = ypos + Len(lines) * (fonts.italic.size + 6)
    /\ Continue("flavor")
    /\ UNCHANGED <<rows, assets, artfiles, idx, out, out_before, icon_cache,
                   fonts, others>>

\* The name of a card's output file in out_dir.
OutName(c) == slugify(c.name) \o JPG

\* export_img.convert("CMYK").save(out_path, ...): the file holds the canvas
Save ==
    /\ phase = "running" /\ pc = "save"
    /\ out' = [f \in DOMAIN out \cup {OutName(card)} |->
                  IF f = OutName(card) THEN canvas ELSE out[f]]
    /\ Continue("save")
    /\ UNCHANGED <<rows, assets, artfiles, idx, canvas, out_before,
                   icon_cache, fonts, ypos, others>>

Next ==
    \/ NextRow \/ MainReturn
    \/ OpenPattern \/ OpenFrame \/ DrawArt \/ DrawParchment \/ LoadFonts
    \/ DrawTitle \/ DrawSubtitle \/ DrawLabel \/ DrawCost \/ DrawFlavor
    \/ Save

Spec == Init /\ [][Next]_vars

\* A record draw_card can render: its pattern, its frame and an artwork
\* exist.
HasColourAssets(c) ==
    /\ PatternFile(Lower(c.color)) \in assets
    /\ FrameFile(Lower(c.color)) \in assets
Renderable(c) == HasColourAssets(c) /\ art_path(c, artfiles).ok

Ended == phase \in {"done", "crashed"}

\* C1: when draw_card fails fatally on one record, the failure is caught at
\* the batch boundary and every later record whose own assets and artwork
\* exist still gets its output file.
C1_BatchSurvivesFailure ==
    Ended =>
        \A i \in DOMAIN rows : \A j \in DOMAIN rows :
            (i < j /\ ~Renderable(rows[i]) /\ Renderable(rows[j]))
            => OutName(rows[j]) \in DOMAIN out

Kinds(c) == {c[k].kind : k \in DOMAIN c}

\* C2: for a record whose colour has no pattern_<colour>/frame_<colour>
\* assets (the empty colour included) draw_card raises no exception, and
\* once it has returned the record's output file exists, drawn on a pattern
\* and a frame.
C2_UnknownColourFallsBack ==
    (idx > 0 /\ ~HasColourAssets(card)) =>
        /\ phase # "crashed"
        /\ pc \in {"loop", "exit"} =>
              /\ OutName(card) \in DOMAIN out
              /\ {"pattern", "frame"} \subseteq Kinds(out[OutName(card)])

\* What every rendered card holds.
RequiredKinds ==
    {"pattern", "frame", "art", "outline", "title", "label", "cost_label"}

\* C3: there is no partial output: a file of the output directory is a
\* complete card; while a card is being drawn, and when it has failed (at
\* the pattern, the frame or the artwork), the output directory is as it
\* was before the card.
C3_NoPartialOutput ==
    /\ \A f \in DOMAIN out : RequiredKinds \subseteq Kinds(out[f])
    /\ (phase = "crashed" \/ (phase = "running" /\ pc # "loop"))
       => out = out_before
    /\ phase = "crashed" => error \in {"pattern", "frame", "art"}

\* The second card of a batch failed at its artwork after the first one was
\* written.
C3_Witness ==
    /\ phase = "crashed" /\ error = "art" /\ idx = 2
    /\ DOMAIN out # {}

\* The width the title may take: the title bar less the padding at its left.
TitleRoom == TITLE_BAR[3] - TITLE_BAR[1] - 8

\* C7: the title font is shrunk while the uppercased title is wider than the
\* title bar less its padding: a title is drawn either fitting or at a size
\* below the starting one (and never below the floor).
C7_TitleAutoFit ==
    \A k \in DOMAIN canvas :
        canvas[k].kind = "title" =>
            \/ getlength(fonts.title, canvas[k].what) <= TitleRoom
            \/ canvas[k].size < pt_to_px(TITLE_FONT_PT)

\* The groups of the layers as the claim orders them: pattern fill, frame
\* and parchment overlays, artwork, text.
GroupOriginal(kind) ==
    CASE kind = "pattern" -> 1
      [] kind \in {"frame", "parchment"} -> 2
      [] kind \in {"art", "outline"} -> 3
      [] OTHER -> 4

InGroupOrder(c) ==
    \A i \in DOMAIN c : \A j \in DOMAIN c :
        i < j => GroupOriginal(c[i].kind) <= GroupOriginal(c[j].kind)

\* C8 as claimed: no layer of an earlier group (pattern fill, frame/parchment
\* overlays, artwork, text) is drawn after a layer of a later group.
C8_LayerOrderOriginal ==
    /\ InGroupOrder(canvas)
    /\ \A f \in DOMAIN out : InGroupOrder(out[f])

\* The one sequence of the layers; the icons of a row and the lines of the
\* flavour text repeat.
LayerSequence ==
    <<"pattern", "frame", "art", "outline", "parchment", "title", "subtitle",
      "label", "power_icon", "cost_label", "cost_icon", "flavor">>
Rank(kind) == CHOOSE r \in DOMAIN LayerSequence : LayerSequence[r] = kind
Repeats == {"power_icon", "cost_icon", "flavor"}

InSequence(c) ==
    \A i \in DOMAIN c : \A j \in DOMAIN c :
        i < j =>
            \/ Rank(c[i].kind) < Rank(c[j].kind)
            \/ c[i].kind = c[j].kind /\ c[i].kind \in Repeats

\* C8 amended: the layers are applied in the one sequence pattern fill,
\* frame overlay, artwork with its outline, parchment panel, then title,
\* subtitle, label, power icons, cost label, cost icons, flavour lines;
\* optional layers are skipped, never reordered.
C8_LayerOrderAmended ==
    /\ \A k \in DOMAIN canvas : canvas[k].kind \in
           {LayerSequence[r] : r \in DOMAIN LayerSequence}
    /\ InSequence(canvas)
    /\ \A f \in DOMAIN out : InSequence(out[f])

\* A written card with every optional layer: parchment, subtitle, a power
\* icon, a cost icon and two lines of flavour text.
C8_Witness ==
    \E f \in DOMAIN out :
        /\ {"parchment", "subtitle", "power_icon", "cost_icon"}
              \subseteq Kinds(out[f])
        /\ Cardinality({k \in DOMAIN out[f] : out[f][k].kind = "flavor"}) = 2

====
